---- MODULE Spec2Model ----
(***************************************************************************)
(* Model of letstrie-sa/markdown-script.                                   *)
(*                                                                         *)
(*   src/automation.py        the scaffolding tool: reads a markdown       *)
(*                            document, extracts its annotated code        *)
(*                            blocks, writes them, infers and installs     *)
(*                            the third-party dependencies.                *)
(*   src/generate-markdown.py the harvesting tool: crawls a repository     *)
(*                            and formats the files as one document.       *)
(*                                                                         *)
(* Text is modelled as TLA+ strings, read character by character with      *)
(* SubSeq; the regular expressions of the source are modelled by matchers  *)
(* that scan the text the way re.search / re.findall do.                   *)
(***************************************************************************)
EXTENDS Integers, Sequences, FiniteSets, TLC

VARIABLES
    pc,             \* position of the running program
    markdown,       \* the markdown text being read or produced
    source,         \* the parts the input document was composed of
    files,          \* the (path, content) records: harvested or extracted
    results,        \* what extract_files_from_markdown returned
    exitCode,       \* -1 while running, else the process's exit status
    project_id,     \* what extract_project_id returned
    commands,       \* the shell commands issued so far, in order
    written,        \* the files written to disk so far, in order
    dependencies,   \* the dependency set of install_third_party_dependencies
    usingToast,     \* process_markdown_project's flag
    repo,           \* the remote repository's answers (harvesting input)
    stack,          \* fetch_contents' call stack: the pending items
    all_files       \* get_repo_contents' accumulator

vars == <<pc, markdown, source, files, results, exitCode, project_id,
          commands, written, dependencies, usingToast, repo, stack, all_files>>

textVars  == <<markdown, source, files, results, project_id>>
runVars   == <<commands, written, dependencies, usingToast>>
crawlVars == <<repo, stack, all_files>>

(***************************************************************************)
(* Bounds of the model.                                                    *)
(***************************************************************************)
MaxBlocks == 2      \* code blocks per input document
MaxFiles == 2       \* records given to create_markdown
MaxTags == 2        \* tags per document given to extract_project_id
MaxRunBlocks == 2   \* code blocks per document given to the scaffolding run

(***************************************************************************)
(* Characters and text helpers.                                            *)
(***************************************************************************)
Ch(s, i) == SubSeq(s, i, i)

\* The literal lit occurs in s at index i.
IsAt(s, i, lit) ==
    /\ i >= 1
    /\ i + Len(lit) - 1 <= Len(s)
    /\ SubSeq(s, i, i + Len(lit) - 1) = lit

\* str.startswith
StartsWith(s, lit) == IsAt(s, 1, lit)

\* Python's \s on str and str.isspace, over the characters of the model.
IsSpace(c) == c \in {" ", "\t", "\n", "\r", "\f"}

\* The class [a-zA-Z0-9].
IsAlnum(c) ==
    c \in {"a","b","c","d","e","f","g","h","i","j","k","l","m",
           "n","o","p","q","r","s","t","u","v","w","x","y","z",
           "A","B","C","D","E","F","G","H","I","J","K","L","M",
           "N","O","P","Q","R","S","T","U","V","W","X","Y","Z",
           "0","1","2","3","4","5","6","7","8","9"}

\* First index >= i whose character is not alphanumeric (Len(s)+1 if none).
RECURSIVE AlnumEnd(_, _)
AlnumEnd(s, i) ==
    IF i <= Len(s) /\ IsAlnum(Ch(s, i)) THEN AlnumEnd(s, i + 1) ELSE i

\* First index >= i whose character is not whitespace.
RECURSIVE SpaceEnd(_, _)
SpaceEnd(s, i) ==
    IF i <= Len(s) /\ IsSpace(Ch(s, i)) THEN SpaceEnd(s, i + 1) ELSE i

\* First index >= i whose character is in the set stop (Len(s)+1 if none).
RECURSIVE StopAt(_, _, _)
StopAt(s, i, stop) ==
    IF i <= Len(s) /\ Ch(s, i) \notin stop THEN StopAt(s, i + 1, stop) ELSE i

\* The least element of a non-empty set of indices.
Least(S) == CHOOSE x \in S : \A y \in S : x <= y

\* First index >= i where lit occurs in s; 0 if it does not.
Find(s, lit, i) ==
    LET hits == {j \in i..Len(s) : IsAt(s, j, lit)}
    IN  IF hits = {} THEN 0 ELSE Least(hits)

Contains(s, lit) == Find(s, lit, 1) # 0

\* str.strip(): leading and trailing whitespace removed.
RECURSIVE RStripEnd(_, _)
RStripEnd(s, j) ==
    IF j >= 1 /\ IsSpace(Ch(s, j)) THEN RStripEnd(s, j - 1) ELSE j

strip(s) ==
    LET i == SpaceEnd(s, 1)
        j == RStripEnd(s, Len(s))
    IN  IF i > j THEN "" ELSE SubSeq(s, i, j)

\* Concatenation of a sequence of strings.
RECURSIVE Concat(_)
Concat(ss) == IF ss = <<>> THEN "" ELSE Head(ss) \o Concat(Tail(ss))

\* All sequences over S of length at most n.
SeqsUpTo(S, n) == UNION {[1..k -> S] : k \in 0..n}

\* The backquote character (U+0060).  A TLA+ string cannot hold it, so the
\* model writes it as the tilde, which no other text of the model uses.
BQ == "~"

\* The code fence: three backquotes.
FENCE == BQ \o BQ \o BQ

(***************************************************************************)
(* extract_files_from_markdown (src/automation.py:85-94).                  *)
(*                                                                         *)
(*   pattern:  FENCE [a-zA-Z0-9]+ \s+ file=" ( [^"]* ) "\n ( [\s\S]*? ) FENCE  *)
(*                                                                         *)
(* One attempt of the pattern at index i.  Each greedy class is followed   *)
(* by a character outside the class, so giving characters back never       *)
(* helps and the run is taken whole; the lazy body ends at the first       *)
(* closing fence.                                                          *)
(***************************************************************************)
NoMatch == [ok |-> FALSE, file |-> "", code |-> "", end |-> 0]

BlockMatchAt(s, i) ==
    IF ~IsAt(s, i, FENCE) THEN NoMatch
    ELSE
    LET a  == i + 3
        b  == AlnumEnd(s, a)            \* [a-zA-Z0-9]+
        c  == SpaceEnd(s, b)            \* \s+
        d  == c + 6                     \* file="
        e  == StopAt(s, d, {"\""})      \* [^"]*
        f  == e + 2                     \* "\n
        g  == Find(s, FENCE, f)         \* [\s\S]*? then the fence
    IN  IF /\ b > a
           /\ c > b
           /\ IsAt(s, c, "file=\"")
           /\ IsAt(s, e, "\"\n")
           /\ g # 0
        THEN [ok |-> TRUE, file |-> SubSeq(s, d, e - 1),
              code |-> SubSeq(s, f, g - 1), end |-> g + 3]
        ELSE NoMatch

\* re.findall: leftmost matches, left to right, not overlapping.
RECURSIVE FindAllBlocks(_, _)
FindAllBlocks(s, i) ==
    LET hits == {j \in i..Len(s) : BlockMatchAt(s, j).ok}
    IN  IF hits = {} THEN <<>>
        ELSE LET m == BlockMatchAt(s, Least(hits))
             IN  <<<<m.file, m.code>>>> \o FindAllBlocks(s, m.end)

\* The function: exit |-> 1 is sys.exit(1), nothing is returned then.
extract_files_from_markdown_skipping(content) ==
    LET found == FindAllBlocks(content, 1)
    IN  [exit |-> 0,
         results |-> SelectSeq(found, LAMBDA r : strip(r[1]) # "")]

extract_files_from_markdown(content) ==
    LET found == FindAllBlocks(content, 1)
    IN  IF \E k \in 1..Len(found) : strip(found[k][1]) = ""
        THEN [exit |-> 1, results |-> <<>>]
        ELSE [exit |-> 0, results |-> found]

(***************************************************************************)
(* extract_project_id (src/automation.py:42-47).                           *)
(*                                                                         *)
(*   pattern:  <ReactProject \s+ id=" ( [^"]+ ) " \s* >                    *)
(***************************************************************************)
NoId == [ok |-> FALSE, id |-> ""]

TagMatchAt(s, i) ==
    IF ~IsAt(s, i, "<ReactProject") THEN NoId
    ELSE
    LET a == i + 13
        b == SpaceEnd(s, a)             \* \s+
        c == b + 4                      \* id="
        d == StopAt(s, c, {"\""})       \* [^"]+
        e == SpaceEnd(s, d + 1)         \* " then \s*
    IN  IF /\ b > a
           /\ IsAt(s, b, "id=\"")
           /\ d > c
           /\ IsAt(s, d, "\"")
           /\ IsAt(s, e, ">")
        THEN [ok |-> TRUE, id |-> SubSeq(s, c, d - 1)]
        ELSE NoId

\* re.search: the leftmost match.
SearchTag(s, i) ==
    LET hits == {j \in i..Len(s) : TagMatchAt(s, j).ok}
    IN  IF hits = {} THEN NoId ELSE TagMatchAt(s, Least(hits))

\* exit |-> 1 is sys.exit(1); otherwise id is match.group(1).
extract_project_id_last(md) ==
    LET hits == {i \in 1..Len(md) : TagMatchAt(md, i).ok}
    IN  IF hits = {} THEN [exit |-> 1, id |-> ""]
        ELSE [exit |-> 0,
              id |-> TagMatchAt(md, CHOOSE i \in hits : \A j \in hits : j <= i).id]

extract_project_id(md) ==
    LET match == SearchTag(md, 1)
    IN  IF ~match.ok THEN [exit |-> 1, id |-> ""]
        ELSE [exit |-> 0, id |-> match.id]

(***************************************************************************)
(* create_markdown (src/generate-markdown.py:107-119).                     *)
(***************************************************************************)
\* Last index of character c in s at or before j; 0 if none (str.rfind + 1).
RFind(s, c, j) ==
    LET hits == {k \in 1..j : Ch(s, k) = c}
    IN  IF hits = {} THEN 0 ELSE CHOOSE x \in hits : \A y \in hits : y <= x

\* genericpath._splitext: the extension starts at the last dot of the last
\* path component, unless only dots precede it in that component.
splitext_ext(p) ==
    LET sepIndex == RFind(p, "/", Len(p))
        dotIndex == RFind(p, ".", Len(p))
    IN  IF /\ dotIndex > sepIndex
           /\ \E k \in (sepIndex + 1)..(dotIndex - 1) : Ch(p, k) # "."
        THEN SubSeq(p, dotIndex, Len(p))
        ELSE ""

\* file_extension = os.path.splitext(file_path)[1][1:]
file_extension(p) ==
    LET ext == splitext_ext(p) IN SubSeq(ext, 2, Len(ext))

file_type(p) ==
    IF file_extension(p) \in {"tsx", "jsx", "ts", "js"} THEN "tsx"
    ELSE file_extension(p)

\* The text appended for one record (line 116).
FormatRecord(file) ==
    file_type(file.path) \o " file=\"" \o file.path \o "\"\n<file_codes>\n"
        \o file.content \o "\n</file_codes>\n\n"

create_markdown(fs) ==
    "<ReactProject>\n\n"
        \o Concat([k \in 1..Len(fs) |-> FormatRecord(fs[k])])
        \o "</ReactProject>\n"

(***************************************************************************)
(* install_third_party_dependencies (src/automation.py:96-124).            *)
(*                                                                         *)
(*   pattern:  import \s+ .*? \s+ from \s+ ['"] ( [^'"]+ ) ['"]            *)
(***************************************************************************)
NoImport == [ok |-> FALSE, dep |-> "", end |-> 0]

QUOTES == {"'", "\""}

\* The pattern's tail at index p:  \s+ from \s+ ['"] ( [^'"]+ ) ['"]
ImportTailAt(s, p) ==
    LET a == SpaceEnd(s, p)             \* \s+
        b == a + 4                      \* from
        c == SpaceEnd(s, b)             \* \s+
        d == c + 1                      \* ['"]
        e == StopAt(s, d, QUOTES)       \* [^'"]+
    IN  IF /\ a > p
           /\ IsAt(s, a, "from")
           /\ c > b
           /\ c <= Len(s) /\ Ch(s, c) \in QUOTES
           /\ e > d
           /\ e <= Len(s)
        THEN [ok |-> TRUE, dep |-> SubSeq(s, d, e - 1), end |-> e + 1]
        ELSE NoImport

\* .*? from index q on: the shortest run of characters other than newline
\* after which the tail matches.
LazyDot(s, q) ==
    LET hits == {p \in q..Len(s) : ImportTailAt(s, p).ok}
    IN  IF hits = {} THEN NoImport
        ELSE IF \E j \in q..(Least(hits) - 1) : Ch(s, j) = "\n" THEN NoImport
        ELSE ImportTailAt(s, Least(hits))

\* import \s+ with k whitespace characters taken, the longest run first.
RECURSIVE GreedySpace(_, _, _)
GreedySpace(s, a, k) ==
    IF k < 1 THEN NoImport
    ELSE LET r == LazyDot(s, a + k)
         IN  IF r.ok THEN r ELSE GreedySpace(s, a, k - 1)

ImportMatchAt(s, i) ==
    IF ~IsAt(s, i, "import") THEN NoImport
    ELSE GreedySpace(s, i + 6, SpaceEnd(s, i + 6) - (i + 6))

\* re.findall over one record's code: the captured specifiers, in order.
RECURSIVE FindAllImports(_, _)
FindAllImports(s, i) ==
    LET hits == {j \in i..Len(s) : ImportMatchAt(s, j).ok}
    IN  IF hits = {} THEN <<>>
        ELSE LET m == ImportMatchAt(s, Least(hits))
             IN  <<m.dep>> \o FindAllImports(s, m.end)

\* str.split("/")
RECURSIVE split(_, _)
split(s, sep) ==
    LET i == Find(s, sep, 1)
    IN  IF i = 0 THEN <<s>>
        ELSE <<SubSeq(s, 1, i - 1)>> \o split(SubSeq(s, i + 1, Len(s)), sep)

\* ignore_dependencies = []                       (line 96)
ignore_dependencies == {}

\* blacklist_prefixes = ("next/")                 (line 97)
\* The parentheses make no tuple: the value is the string "next/", and
\* "for prefix in blacklist_prefixes" runs over its characters.
blacklist_prefixes == "next/"

\* any(dep.startswith(prefix) for prefix in blacklist_prefixes)
blacklisted(dep) ==
    \E k \in 1..Len(blacklist_prefixes) :
        StartsWith(dep, Ch(blacklist_prefixes, k))

\* What lines 110-116 add for a specifier that passed the filters.
package_name(dep) ==
    IF Contains(dep, "/")
    THEN LET parts == split(dep, "/")
             scope == parts[1]
             name  == IF Len(parts) > 1 THEN parts[2] ELSE ""
         IN  scope \o "/" \o name
    ELSE dep

\* The specifiers of one record that lines 105-109 let through.
kept(dep) ==
    /\ dep \notin ignore_dependencies
    /\ ~blacklisted(dep)
    /\ ~StartsWith(dep, "./") /\ ~StartsWith(dep, "@/")

\* The set built by the loop of lines 102-116.
inferred_dependencies(fs) ==
    UNION {
        LET matches == FindAllImports(fs[k][2], 1)
        IN  {package_name(matches[j]) : j \in {j \in 1..Len(matches) : kept(matches[j])}}
        : k \in 1..Len(fs)}

(***************************************************************************)
(* Input documents.  A document is composed of parts, kept in source so    *)
(* that what a function returns can be compared with what was put in.      *)
(***************************************************************************)
\* A fenced code block: a language tag, an optional file attribute, a body.
Langs == {"tsx", "c++", "objective-c"}
Paths == {"a.ts", "b/c.ts", "", " "}
Codes == {"", "let x = 1\n"}

BlockInputs ==
    {b \in [lang : Langs, attr : BOOLEAN, path : Paths, code : Codes] :
        ~b.attr => b.path = ""}

RenderBlock(b) ==
    FENCE \o b.lang
        \o (IF b.attr THEN " file=\"" \o b.path \o "\"" ELSE "")
        \o "\n" \o b.code \o FENCE \o "\n"

BlockDocument(blocks) ==
    "<ReactProject id=\"demo\">\n"
        \o Concat([k \in 1..Len(blocks) |-> RenderBlock(blocks[k])])
        \o "</ReactProject>\n"

\* A tag: <ReactProject, whitespace, an id attribute, perhaps another
\* attribute, whitespace, >.
TagInputs ==
    {t \in [hasId : BOOLEAN, sp : {"", " ", "\n\t"}, id : {"", "demo", "app-2"},
            extra : {"", " class=\"x\""}, close : {"", " "}] :
        ~t.hasId => (t.sp = "" /\ t.id = "" /\ t.extra = "" /\ t.close = "")}

RenderTag(t) ==
    "<ReactProject"
        \o (IF t.hasId THEN t.sp \o "id=\"" \o t.id \o "\"" \o t.extra \o t.close
            ELSE "")
        \o ">"

TagDocument(tags) ==
    "# Project\n"
        \o Concat([k \in 1..Len(tags) |-> RenderTag(tags[k]) \o "\n"])
        \o "</ReactProject>\n"

\* The records the harvesting tool hands to create_markdown: paths with an
\* allowed extension (src/generate-markdown.py:80), contents without a fence.
FileRecords ==
    [path : {"a.ts", "src/b.css", "c.json"},
     content : {"", "x", "import z from 'zod'\n"}]

(***************************************************************************)
(* The text functions, each applied to an input chosen in Init.            *)
(***************************************************************************)
IdleRun ==
    /\ commands = <<>>
    /\ written = <<>>
    /\ dependencies = {}
    /\ usingToast = FALSE

IdleCrawl ==
    /\ repo = <<>>
    /\ stack = <<>>
    /\ all_files = <<>>

InitExtractFiles ==
    /\ pc = "extract_files"
    /\ source \in SeqsUpTo(BlockInputs, MaxBlocks)
    /\ markdown = BlockDocument(source)
    /\ files = <<>>

InitExtractProjectId ==
    /\ pc = "extract_project_id"
    /\ source \in SeqsUpTo(TagInputs, MaxTags)
    /\ markdown = TagDocument(source)
    /\ files = <<>>

InitCreateMarkdown ==
    /\ pc = "create_markdown"
    /\ source = <<>>
    /\ markdown = ""
    /\ files \in SeqsUpTo(FileRecords, MaxFiles)

InitText ==
    /\ \/ InitExtractFiles
       \/ InitExtractProjectId
       \/ InitCreateMarkdown
    /\ results = <<>>
    /\ project_id = ""
    /\ exitCode = -1
    /\ IdleRun
    /\ IdleCrawl

\* project_id = extract_project_id(markdown)
ExtractProjectId ==
    /\ pc = "extract_project_id"
    /\ LET r == extract_project_id(markdown)
       IN  /\ project_id' = r.id
           /\ exitCode' = IF r.exit = 1 THEN 1 ELSE exitCode
           /\ pc' = IF r.exit = 1 THEN "id_exit" ELSE "id_returned"
    /\ UNCHANGED <<markdown, source, files, results>>
    /\ UNCHANGED <<runVars, crawlVars>>

\* results = extract_files_from_markdown(markdown)
ExtractFiles ==
    /\ pc = "extract_files"
    /\ LET r == extract_files_from_markdown(markdown)
       IN  /\ results' = r.results
           /\ exitCode' = IF r.exit = 1 THEN 1 ELSE exitCode
           /\ pc' = IF r.exit = 1 THEN "files_exit" ELSE "files_returned"
    /\ UNCHANGED <<markdown, source, files, project_id>>
    /\ UNCHANGED <<runVars, crawlVars>>

\* markdown = create_markdown(files); the text is then what the scaffolding
\* tool's extractor is given.
CreateMarkdown ==
    /\ pc = "create_markdown"
    /\ markdown' = create_markdown(files)
    /\ pc' = "extract_files"
    /\ UNCHANGED <<source, files, results, project_id, exitCode>>
    /\ UNCHANGED <<runVars, crawlVars>>

NextText ==
    \/ ExtractProjectId
    \/ ExtractFiles
    \/ CreateMarkdown

SpecText == InitText /\ [][NextText]_vars

(***************************************************************************)
(* The scaffolding run: process_markdown_project and the main block        *)
(* (src/automation.py:154-213).                                            *)
(***************************************************************************)
\* The code of a block of a project document, with the specifiers of its
\* "import ... from" statements (specs), in order.
CodeInputs ==
    { [code |-> "export const x = 1\n",                     specs |-> <<>>],
      [code |-> "import z from 'zod'\n",                     specs |-> <<"zod">>],
      [code |-> "import express from \"express\";\n",        specs |-> <<"express">>],
      [code |-> "import Link from 'next/link'\n",            specs |-> <<"next/link">>],
      [code |-> "import X from './components/x'\n",          specs |-> <<"./components/x">>],
      [code |-> "import y from '../lib/y'\n",                specs |-> <<"../lib/y">>],
      [code |-> "import { cn } from \"@/lib/y\"\n",          specs |-> <<"@/lib/y">>],
      [code |-> "import { t } from '@/components/ui/toast'\n",
                                            specs |-> <<"@/components/ui/toast">>],
      [code |-> "import * as T from '@radix-ui/react-toast/sub'\n",
                                            specs |-> <<"@radix-ui/react-toast/sub">>],
      [code |-> "import './local'\nimport  {\tz } from\n\"zod\"\n",
                                            specs |-> <<"zod">>] }

RunBlockInputs ==
    {[lang |-> "tsx", attr |-> TRUE, path |-> p, code |-> c.code, specs |-> c.specs] :
        p \in {"app/page.tsx", ""}, c \in CodeInputs}

\* The document's first line: with the wrapper tag, or without it.
Headers == {"<ReactProject id=\"demo\">\n", "# Demo\n"}

RunDocument(header, blocks) ==
    header \o Concat([k \in 1..Len(blocks) |-> RenderBlock(blocks[k])])

\* The exit statuses a subprocess returns in the model.
ExitStatuses == {0, 1}

\* run_command (lines 49-53): raises RuntimeError on a non-zero status.
run_command_unchecked(rc) == "ok"

run_command(rc) == IF rc # 0 THEN "raise" ELSE "ok"

\* A command is run; on success the run goes on at okpc with status okexit.
\* A RuntimeError reaches the main block's "except Exception", which calls
\* sys.exit(1) (setup_shadcn prints and re-raises it, lines 80-82).
Run(cmd, deps, okpc, okexit) ==
    \E rc \in ExitStatuses :
        /\ commands' = Append(commands, [cmd |-> cmd, deps |-> deps, rc |-> rc])
        /\ IF run_command(rc) = "ok"
           THEN pc' = okpc /\ exitCode' = okexit
           ELSE pc' = "exit" /\ exitCode' = 1

InitRun ==
    /\ pc = "start"
    /\ source \in SeqsUpTo(RunBlockInputs, MaxRunBlocks)
    /\ \E h \in Headers : markdown = RunDocument(h, source)
    /\ files = <<>>
    /\ results = <<>>
    /\ project_id = ""
    /\ exitCode = -1
    /\ IdleRun
    /\ IdleCrawl

\* Lines 155-176: the prompt, read_markdown, the project folder, usingToast.
\* An empty path or an existing folder is sys.exit(1); a missing file raises
\* FileNotFoundError, which the main block turns into sys.exit(1).
ReadInput ==
    /\ pc = "start"
    /\ \E outcome \in {"ok", "empty path", "file not found", "folder exists"} :
        IF outcome = "ok"
        THEN /\ usingToast' = (Contains(markdown, "@/components/ui/toast")
                                \/ Contains(markdown, "@/components/ui/toaster"))
             /\ pc' = IF usingToast' THEN "toast" ELSE "init"
             /\ exitCode' = exitCode
        ELSE /\ pc' = "exit"
             /\ exitCode' = 1
             /\ usingToast' = usingToast
    /\ UNCHANGED <<textVars, commands, written, dependencies, crawlVars>>

\* Lines 178-180.
ToastInstall ==
    /\ pc = "toast"
    /\ Run("npm install shadcn@v2.3.0", {}, "init", exitCode)
    /\ UNCHANGED <<textVars, written, dependencies, usingToast, crawlVars>>

\* setup_shadcn, lines 71-74 (using_pnpm is the constant False, line 57).
ShadcnInit ==
    /\ pc = "init"
    /\ Run(IF usingToast THEN "npx shadcn init" ELSE "npx shadcn@latest init",
           {}, "add", exitCode)
    /\ UNCHANGED <<textVars, written, dependencies, usingToast, crawlVars>>

\* setup_shadcn, lines 76-77.
ShadcnAdd ==
    /\ pc = "add"
    /\ Run(IF usingToast THEN "npx shadcn add -a" ELSE "npx shadcn@latest add -a",
           {}, "extract", exitCode)
    /\ UNCHANGED <<textVars, written, dependencies, usingToast, crawlVars>>

\* Line 187.
ExtractProjectFiles ==
    /\ pc = "extract"
    /\ LET r == extract_files_from_markdown(markdown)
       IN  /\ results' = r.results
           /\ exitCode' = IF r.exit = 1 THEN 1 ELSE exitCode
           /\ pc' = IF r.exit = 1 THEN "exit"
                    ELSE IF r.results = <<>> THEN "install" ELSE "write"
    /\ UNCHANGED <<markdown, source, files, project_id, runVars, crawlVars>>

\* write_project_files (lines 127-134), one file of the loop.
WriteProjectFile ==
    /\ pc = "write"
    /\ written' = Append(written, results[Len(written) + 1])
    /\ pc' = IF Len(written') = Len(results) THEN "install" ELSE "write"
    /\ UNCHANGED <<textVars, exitCode, commands, dependencies, usingToast, crawlVars>>

\* install_third_party_dependencies (lines 99-124): one batched install
\* command when the set is not empty, pnpm's when pnpm-lock.yaml exists.
InstallThirdPartyDependencies ==
    /\ pc = "install"
    /\ dependencies' = inferred_dependencies(results)
    /\ IF dependencies' # {}
       THEN \E lock \in BOOLEAN :
                Run(IF lock THEN "pnpm install" ELSE "npm install",
                    dependencies', "launch", exitCode)
       ELSE /\ pc' = "launch"
            /\ UNCHANGED <<commands, exitCode>>
    /\ UNCHANGED <<textVars, written, usingToast, crawlVars>>

\* Lines 205-206; after it the script ends, with status 0.
LaunchDevServer ==
    /\ pc = "launch"
    /\ Run("npm run dev", {}, "done", 0)
    /\ UNCHANGED <<textVars, written, dependencies, usingToast, crawlVars>>

\* KeyboardInterrupt while the run is under way (lines 37-39, 208-210).
Interrupt ==
    /\ pc \in {"start", "toast", "init", "add", "extract", "write", "install", "launch"}
    /\ pc' = "exit"
    /\ exitCode' = 1
    /\ UNCHANGED <<textVars, runVars, crawlVars>>

NextRun ==
    \/ ReadInput
    \/ ToastInstall
    \/ ShadcnInit
    \/ ShadcnAdd
    \/ ExtractProjectFiles
    \/ WriteProjectFile
    \/ InstallThirdPartyDependencies
    \/ LaunchDevServer
    \/ Interrupt

SpecRun == InitRun /\ [][NextRun]_vars

(***************************************************************************)
(* The harvesting crawl: get_repo_contents                                 *)
(* (src/generate-markdown.py:44-104).                                      *)
(***************************************************************************)
\* The remote repository of the model: what the contents API lists for a
\* directory.  An item is a record with the path and type of the API's.
Children(path) ==
    CASE path = ""        -> << [path |-> "src",        type |-> "dir"],
                                [path |-> "theme",      type |-> "symlink"],
                                [path |-> "README.md",  type |-> "file"],
                                [path |-> "logo.png",   type |-> "file"] >>
      [] path = "src"     -> << [path |-> "src/lib",     type |-> "dir"],
                                [path |-> "src/app.tsx", type |-> "file"] >>
      [] path = "src/lib" -> << [path |-> "src/lib/util.ts", type |-> "file"] >>

Dirs == {"", "src", "src/lib"}
TextFiles == {"README.md", "src/app.tsx", "src/lib/util.ts"}

\* The parent directories of a path of the tree, the root included.
Ancestors(path) ==
    CASE path \in {"src", "theme", "README.md", "logo.png"} -> {""}
      [] path \in {"src/lib", "src/app.tsx"} -> {"", "src"}
      [] path = "src/lib/util.ts" -> {"", "src", "src/lib"}
      [] OTHER -> {}

\* What the API answers for one file: the status, and the JSON's encoding
\* and content fields.
FileResponses ==
    { [status |-> 200, encoding |-> "base64", content |-> "aGk="],
      [status |-> 200, encoding |-> "base64", content |-> "aGk"],
      [status |-> 200, encoding |-> "none",   content |-> ""],
      [status |-> 404, encoding |-> "",       content |-> ""] }

SkipPatternSets ==
    { <<>>, <<"src/lib/*">>, <<"src/lib">>, <<"src/*">>, <<"docs/*", "README.md">> }

\* A crawl from the repository root, and a crawl whose path names one file.
RepoInputs ==
    [root : {""}, listing : [Dirs -> {200, 404}],
     download : [TextFiles -> FileResponses], skip_patterns : SkipPatternSets]
    \cup
    [root : {"README.md"}, listing : [{"README.md"} -> {200, 404}],
     download : [{"README.md"} -> FileResponses], skip_patterns : SkipPatternSets]

\* response.json() made a list (lines 66-68): a directory's items, or the
\* single item the API returns for a file path.
Contents(path) ==
    IF path \in Dirs THEN Children(path)
    ELSE << [path |-> path, type |-> "file"] >>

\* fnmatch.fnmatch for the patterns of the model: a literal, or a literal
\* followed by one "*", which matches any text, "/" included.
fnmatch(path, pattern) ==
    IF pattern # "" /\ Ch(pattern, Len(pattern)) = "*"
    THEN StartsWith(path, SubSeq(pattern, 1, Len(pattern) - 1))
    ELSE path = pattern

\* should_skip_path (lines 44-48)
should_skip_path(path, skip_patterns) ==
    \E k \in 1..Len(skip_patterns) : fnmatch(path, skip_patterns[k])

\* str.endswith with the tuple of line 80.
EndsWith(s, suffix) == IsAt(s, Len(s) - Len(suffix) + 1, suffix)

allowed_extension(path) ==
    \E ext \in {".js", ".jsx", ".ts", ".tsx", ".css", ".scss", ".html", ".md",
                ".json", ".py", ".txt"} : EndsWith(path, ext)

\* base64.b64decode(...).decode('utf-8', errors='replace') on the payloads
\* of the model: "aGk=" is "hi"; "aGk" raises binascii.Error (padding).
b64decode(encoded) ==
    CASE encoded = "aGk=" -> [ok |-> TRUE,  text |-> "hi"]
      [] encoded = ""     -> [ok |-> TRUE,  text |-> ""]
      [] encoded = "aGk"  -> [ok |-> FALSE, text |-> ""]

\* Lines 81-99: what downloading one file adds to all_files.
downloaded(item_path, resp) ==
    IF resp.status = 200
    THEN IF resp.encoding = "base64"
         THEN LET d == b64decode(resp.content)
              IN  IF d.ok THEN << [path |-> item_path, content |-> d.text] >>
                  ELSE <<>>                  \* "Failed decoding"
         ELSE <<>>                           \* "Skipped non-base64 encoded file"
    ELSE <<>>                                \* "Error downloading"

\* Lines 61-64: a listing that is not 200 returns from this call of
\* fetch_contents only; the callers' loops go on.
after_failed_listing_abort(stk) == <<>>

after_failed_listing(stk) == Tail(stk)

\* The call stack of fetch_contents, innermost call first.  A frame is a
\* call: its path, whether its listing was requested, the items left.
Frame(path) == [path |-> path, fetched |-> FALSE, rest |-> <<>>]

InitCrawl ==
    /\ pc = "crawl"
    /\ repo \in RepoInputs
    /\ stack = <<Frame(repo.root)>>
    /\ all_files = <<>>
    /\ markdown = ""
    /\ source = <<>>
    /\ files = <<>>
    /\ results = <<>>
    /\ project_id = ""
    /\ exitCode = -1
    /\ IdleRun

Top == Head(stack)

\* Lines 58-68: the listing is requested.
FetchListing ==
    /\ pc = "crawl" /\ stack # <<>> /\ ~Top.fetched
    /\ stack' = IF repo.listing[Top.path] # 200
                THEN after_failed_listing(stack)
                ELSE <<[Top EXCEPT !.fetched = TRUE, !.rest = Contents(Top.path)]>>
                         \o Tail(stack)
    /\ UNCHANGED <<pc, repo, all_files, textVars, exitCode, runVars>>

Item == Head(Top.rest)

Iterating == pc = "crawl" /\ stack # <<>> /\ Top.fetched /\ Top.rest # <<>>

Advanced == <<[Top EXCEPT !.rest = Tail(Top.rest)]>> \o Tail(stack)

\* Lines 73-75: the item matches a skip pattern.
SkipItem ==
    /\ Iterating
    /\ should_skip_path(Item.path, repo.skip_patterns)
    /\ stack' = Advanced
    /\ UNCHANGED <<pc, repo, all_files, textVars, exitCode, runVars>>

\* Lines 77-78: fetch_contents(item_path).
EnterDirectory ==
    /\ Iterating
    /\ ~should_skip_path(Item.path, repo.skip_patterns)
    /\ Item.type = "dir"
    /\ stack' = <<Frame(Item.path)>> \o Advanced
    /\ UNCHANGED <<pc, repo, all_files, textVars, exitCode, runVars>>

\* Lines 79-101: a file is downloaded when its extension is allowed.
VisitFile ==
    /\ Iterating
    /\ ~should_skip_path(Item.path, repo.skip_patterns)
    /\ Item.type = "file"
    /\ all_files' = IF allowed_extension(Item.path)
                    THEN all_files \o downloaded(Item.path, repo.download[Item.path])
                    ELSE all_files
    /\ stack' = Advanced
    /\ UNCHANGED <<pc, repo, textVars, exitCode, runVars>>

\* An item that is neither a directory nor a file falls through the loop body.
IgnoreItem ==
    /\ Iterating
    /\ ~should_skip_path(Item.path, repo.skip_patterns)
    /\ Item.type \notin {"dir", "file"}
    /\ stack' = Advanced
    /\ UNCHANGED <<pc, repo, all_files, textVars, exitCode, runVars>>

\* The loop of a call is over: the call returns.
ReturnFromFetch ==
    /\ pc = "crawl" /\ stack # <<>> /\ Top.fetched /\ Top.rest = <<>>
    /\ stack' = Tail(stack)
    /\ UNCHANGED <<pc, repo, all_files, textVars, exitCode, runVars>>

\* Line 104: return all_files.
ReturnAllFiles ==
    /\ pc = "crawl" /\ stack = <<>>
    /\ pc' = "crawled"
    /\ files' = all_files
    /\ UNCHANGED <<markdown, source, results, project_id, exitCode, runVars, crawlVars>>

NextCrawl ==
    \/ FetchListing
    \/ SkipItem
    \/ EnterDirectory
    \/ VisitFile
    \/ IgnoreItem
    \/ ReturnFromFetch
    \/ ReturnAllFiles

SpecCrawl == InitCrawl /\ [][NextCrawl]_vars

(***************************************************************************)
(* Properties of the text functions (checked under SpecText).              *)
(***************************************************************************)
ExtractDone == pc \in {"files_returned", "files_exit"}

\* The (path, content) pairs of a sequence of records, in order.
Pairs(fs) == [k \in 1..Len(fs) |-> <<fs[k].path, fs[k].content>>]

\* The blocks of the input that carry a file attribute, in document order.
Annotated == SelectSeq(source, LAMBDA b : b.attr)

AnnotatedPairs == [k \in 1..Len(Annotated) |-> <<Annotated[k].path, Annotated[k].code>>]

IsAlnumTag(lang) ==
    /\ lang # ""
    /\ \A k \in 1..Len(lang) : IsAlnum(Ch(lang, k))

IsBlank(path) == \A k \in 1..Len(path) : IsSpace(Ch(path, k))

\* C1: round trip.  For records without a fence sequence, extracting from
\* the text create_markdown produced returns the records' (path, content)
\* pairs unchanged.
C1_RoundTrip ==
    (ExtractDone /\ markdown = create_markdown(files))
        => (pc = "files_returned" /\ results = Pairs(files))

\* C5: fail-fast on an empty path.  If a matched block (alphanumeric tag,
\* file attribute) has an empty or whitespace-only path, the extraction
\* exits with status 1 and returns no record, wherever the block stands and
\* whatever the other blocks are.
C5_FailFastOnEmptyPath ==
    (ExtractDone /\ \E k \in 1..Len(Annotated) :
            IsAlnumTag(Annotated[k].lang) /\ IsBlank(Annotated[k].path))
        => (pc = "files_exit" /\ exitCode = 1 /\ results = <<>>)

\* C5 witness: a valid block followed by a block with a blank path, and the
\* extraction has exited.
C5_Witness ==
    /\ pc = "files_exit"
    /\ Len(source) = 2
    /\ source[1].attr /\ IsAlnumTag(source[1].lang) /\ ~IsBlank(source[1].path)
    /\ source[2].attr /\ IsAlnumTag(source[2].lang) /\ IsBlank(source[2].path)
    /\ results = <<>>

\* C6: a document whose annotated blocks have distinct non-empty (not
\* blank) paths yields exactly those blocks, in document order, path and
\* content verbatim, and no error; a document without annotated blocks
\* yields the empty sequence.
C6_ExactlyTheBlocks ==
    (/\ ExtractDone
     /\ \A k \in 1..Len(Annotated) : ~IsBlank(Annotated[k].path)
     /\ \A j, k \in 1..Len(Annotated) :
            j # k => Annotated[j].path # Annotated[k].path)
        => (pc = "files_returned" /\ results = AnnotatedPairs)

\* What does hold of the extraction: when every annotated block has an
\* alphanumeric language tag and a non-blank path, exactly the annotated
\* blocks are returned, in document order and verbatim.
ExtractReturnsAlnumBlocks ==
    (/\ ExtractDone
     /\ \A k \in 1..Len(Annotated) :
            IsAlnumTag(Annotated[k].lang) /\ ~IsBlank(Annotated[k].path))
        => (pc = "files_returned" /\ results = AnnotatedPairs)

\* C10: any language tag is tolerated.  Every block with a file attribute
\* and a non-blank path is returned whatever its language tag is made of.
C10_AnyLanguageTag ==
    (/\ ExtractDone
     /\ \A k \in 1..Len(Annotated) : ~IsBlank(Annotated[k].path))
        => \A k \in 1..Len(Annotated) :
              \E j \in 1..Len(results) :
                  results[j] = <<Annotated[k].path, Annotated[k].code>>

\* The tags of the input of the form the glossary calls the wrapper tag:
\* <ReactProject, whitespace, id="<value>" with a value, >.
IsWrapperTag(t) == t.hasId /\ t.sp # "" /\ t.id # "" /\ t.extra = ""

WrapperTags == SelectSeq(source, IsWrapperTag)

InstallCommands == {"npm install", "pnpm install"}

\* install_third_party_dependencies has run.
InstallActed ==
    \/ pc \in {"launch", "done"}
    \/ /\ pc = "exit"
       /\ commands # <<>>
       /\ commands[Len(commands)].cmd \in InstallCommands \cup {"npm run dev"}

\* The import specifiers of the document's records.
SourceSpecifiers ==
    UNION {{source[k].specs[j] : j \in 1..Len(source[k].specs)} : k \in 1..Len(source)}

\* A specifier without "/" unchanged, else its first two segments.
FirstTwoSegments(d) ==
    LET i1 == Find(d, "/", 1)
        i2 == IF i1 = 0 THEN 0 ELSE Find(d, "/", i1 + 1)
    IN  IF i2 = 0 THEN d ELSE SubSeq(d, 1, i2 - 1)

\* C2: the wrapper tag is validated first.  For a document without the
\* tag no extracted file is ever written, no install command is ever
\* issued, and the run does not end with status 0.
C2_TagValidatedFirst ==
    (extract_project_id(markdown).exit = 1)
        => /\ written = <<>>
           /\ \A k \in 1..Len(commands) : commands[k].cmd \notin InstallCommands
           /\ pc = "done" => exitCode # 0

\* C3: every third-party specifier is included.  A specifier that is not
\* ignored and starts with none of "next/", "./", "@/" is in the set:
\* unchanged without "/", as its first two segments otherwise.
C3_ThirdPartyIncluded ==
    InstallActed
        => \A d \in SourceSpecifiers :
              (/\ d \notin ignore_dependencies
               /\ ~StartsWith(d, "next/")
               /\ ~StartsWith(d, "./") /\ ~StartsWith(d, "@/"))
                  => FirstTwoSegments(d) \in dependencies

\* C4: no relative path and no local alias among the dependencies.
C4_NoLocalImports ==
    InstallActed
        => \A e \in dependencies :
              ~(StartsWith(e, "./") \/ StartsWith(e, "../") \/ StartsWith(e, "@/"))

\* The steps that run commands, in the order of the run.
StepRank(cmd) ==
    CASE cmd = "npm install shadcn@v2.3.0" -> 1
      [] cmd \in {"npx shadcn init", "npx shadcn@latest init"} -> 2
      [] cmd \in {"npx shadcn add -a", "npx shadcn@latest add -a"} -> 3
      [] cmd \in InstallCommands -> 4
      [] cmd = "npm run dev" -> 5

Ranks == {StepRank(commands[k].cmd) : k \in 1..Len(commands)}

\* C7: exit statuses gate the steps.  The commands run in the order toast
\* install, init, add, dependency install, dev server, files being written
\* between add and the dependency install; a command runs only after the
\* previous one returned 0, and once a command returned non-zero nothing
\* more is executed and the run has exited with a non-zero status.
C7_ExitStatusGates ==
    /\ \A k \in 1..(Len(commands) - 1) :
          /\ StepRank(commands[k].cmd) < StepRank(commands[k + 1].cmd)
          /\ commands[k].rc = 0
    /\ (2 \in Ranks /\ usingToast) => 1 \in Ranks
    /\ 3 \in Ranks => 2 \in Ranks
    /\ written # <<>> => (3 \in Ranks /\ \A k \in 1..Len(commands) :
                             StepRank(commands[k].cmd) <= 3 => commands[k].rc = 0)
    /\ (4 \in Ranks \/ 5 \in Ranks) => (3 \in Ranks /\ written = results)
    /\ (5 \in Ranks /\ dependencies # {}) => 4 \in Ranks
    /\ \A k \in 1..Len(commands) :
          commands[k].rc # 0
              => (k = Len(commands) /\ pc = "exit" /\ exitCode # 0)
    /\ pc = "done" => (5 \in Ranks /\ exitCode = 0)

\* C7 witness: the component add failed in a run whose document has files
\* to write; nothing was written and the run exited with status 1.
C7_Witness ==
    /\ pc = "exit"
    /\ exitCode = 1
    /\ Len(commands) = 2
    /\ StepRank(commands[2].cmd) = 3
    /\ commands[2].rc # 0
    /\ extract_files_from_markdown(markdown).results # <<>>
    /\ written = <<>>

(***************************************************************************)
(* Properties of the harvesting crawl (checked under SpecCrawl).           *)
(***************************************************************************)
\* The files of the crawled tree.
CrawledFiles ==
    IF repo.root = "" THEN TextFiles \cup {"logo.png"} ELSE {repo.root}

ReturnedPaths == {files[k].path : k \in 1..Len(files)}

Skipped(path) == should_skip_path(path, repo.skip_patterns)

\* Every directory above the file was listed with status 200.
ListingsOk(f) ==
    IF repo.root = "" THEN \A d \in Ancestors(f) : repo.listing[d] = 200
    ELSE repo.listing[f] = 200

\* The file's download returned 200 and its payload did not fail to decode.
DownloadOk(f) ==
    /\ repo.download[f].status = 200
    /\ ~(repo.download[f].encoding = "base64" /\ ~b64decode(repo.download[f].content).ok)

\* C8 as stated: a failed listing skips its subtree only, a failed download
\* or decoding skips that file only, and every other file that is not
\* skip-matched and has an allowed extension is returned.
C8_EveryOtherFileReturned ==
    pc = "crawled"
        => \A f \in CrawledFiles :
              (ListingsOk(f) /\ ~Skipped(f) /\ allowed_extension(f) /\ DownloadOk(f))
                  => f \in ReturnedPaths

\* C8 amended: the crawl always returns, and it returns exactly the files
\* that lie under no failed listing and under no skip-matched directory,
\* are not skip-matched, have an allowed extension, downloaded with status
\* 200, are base64-encoded and decode.
Expected(f) ==
    /\ ListingsOk(f)
    /\ \A d \in Ancestors(f) : ~Skipped(d)
    /\ ~Skipped(f)
    /\ allowed_extension(f)
    /\ repo.download[f].status = 200
    /\ repo.download[f].encoding = "base64"
    /\ b64decode(repo.download[f].content).ok

C8_ExactlyTheRecoveredFiles ==
    pc = "crawled"
        => /\ ReturnedPaths = {f \in CrawledFiles : Expected(f)}
           /\ \A k \in 1..Len(files) :
                 files[k].content = b64decode(repo.download[files[k].path].content).text

\* C8 witness: the listing of src/lib failed, the download of src/app.tsx
\* failed, and README.md, which comes later in the crawl, was returned.
C8_Witness ==
    /\ pc = "crawled"
    /\ repo.root = ""
    /\ repo.listing["src/lib"] # 200
    /\ repo.download["src/app.tsx"].status # 200
    /\ ReturnedPaths = {"README.md"}

====
